---- MODULE Spec2Model ----
(***************************************************************************)
(* Model of the schema comparison engine of src/sync.py: InspectedSchema   *)
(* (the queryable snapshot of one introspected schema) and Comparator      *)
(* (the diff of an expected and an actual schema, printed line by line).   *)
(*                                                                         *)
(* Strings.  Names (of tables and columns) are TLA+ strings.  Every other  *)
(* string of the program (a table type, a comment, a column type, an index *)
(* or constraint definition) is the sequence of its lexemes: each maximal  *)
(* run of word characters (\w+) is one lexeme, and every other character   *)
(* (" ", "(", ")", ",") is a lexeme of its own.  So the text               *)
(* numeric(10,2) is <<"numeric", "(", "10", ",", "2", ")">>.  The regular  *)
(* expressions of the program are modelled as matchers over lexemes.       *)
(***************************************************************************)
EXTENDS Integers, Sequences, FiniteSets, TLC

VARIABLES
    expected,          \* Comparator.expected: data of the expected schema
    actual,            \* Comparator.actual: data of the actual schema
    equivalent_types,  \* Comparator.equivalent_types: a list of lists of types
    table_names,       \* compare(): the sorted union of the table names
    i,                 \* compare(): position of the loop in table_names
    pc,                \* the statement of compare()/compare_table() to run next
    stdout,            \* the lines printed so far
    exception          \* the exception compare() ended with, or None

vars == <<expected, actual, equivalent_types, table_names, i, pc, stdout, exception>>

----------------------------------------------------------------------------
(* Values *)

\* Python's None.  print renders it as the text None; no string of the
\* inputs below is that single lexeme.
None == <<"None">>

\* The exception raised by the two normalisers.
NotImplementedError == <<"NotImplementedError">>

\* All names and lexemes of the model in Python's string order (code points).
StringOrder ==
    << " ", "(", ")", ",", "...", "10", "2", "255", "4",
       "BASE", "CASCADE", "CHECK", "CREATE", "DELETE", "FOREIGN", "INDEX",
       "KEY", "ON", "PRIMARY", "REFERENCES", "TABLE", "UNIQUE", "USING",
       "VIEW",
       "a", "b", "btree", "c", "character", "d", "decimal", "email", "gin",
       "hash", "id", "idx_1", "idx_42", "numeric", "text",
       "user_id", "users", "varchar", "varying", "x", "y", "z" >>

Rank(s) == CHOOSE k \in 1..Len(StringOrder) : StringOrder[k] = s

\* s < t for two strings given as lexeme sequences: the first differing
\* lexeme decides, and a proper prefix comes first.  This is the order of
\* the texts, since a word lexeme is followed by " ", "(", ")" or ",", all
\* of which come before every word character.
LessString(s, t) ==
    \E k \in 1..Len(t) :
        /\ \A j \in 1..(k - 1) : j <= Len(s) /\ s[j] = t[j]
        /\ \/ k = Len(s) + 1
           \/ k <= Len(s) /\ Rank(s[k]) < Rank(t[k])

\* s < t for two names.
LessName(s, t) == Rank(s) < Rank(t)

\* sorted(..., reverse=True)
sorted_descending(S) ==
    [k \in 1..Cardinality(S) |->
        CHOOSE x \in S : Cardinality({y \in S : LessString(x, y)}) = k - 1]

\* sorted(set(...)): the strings of S in ascending order.
sorted(S) ==
    [k \in 1..Cardinality(S) |->
        CHOOSE x \in S : Cardinality({y \in S : LessString(y, x)}) = k - 1]

\* sorted(set(...)) for a set of names.
sorted_names(S) ==
    LET names == sorted({<<n>> : n \in S})
    IN  [k \in 1..Len(names) |-> names[k][1]]

Range(s) == {s[k] : k \in 1..Len(s)}

RECURSIVE Concat(_)
Concat(ss) == IF ss = <<>> THEN <<>> ELSE Head(ss) \o Concat(Tail(ss))

\* Lexeme classes of the regular expressions.
IsWord(l) == l \notin {" ", "(", ")", ",", "..."}               \* \w+
IsNonSpace(l) == l # " "                                         \* \S

\* One printed line.  column is "" for a line about a table; name is the
\* index or constraint the line names; left and right are the two sides of
\* "!=" in a mismatch line.
Line(table, column, kind, name, left, right) ==
    [table |-> table, column |-> column, kind |-> kind, name |-> name,
     left |-> left, right |-> right]

NoColumn == ""
NoValue == <<>>

----------------------------------------------------------------------------
(* InspectedSchema *)

\* The last table of the name wins, as in a dict comprehension.
table_name_to_table(data) ==
    [n \in {data.tables[k].name : k \in 1..Len(data.tables)} |->
        data.tables[CHOOSE k \in 1..Len(data.tables) :
            /\ data.tables[k].name = n
            /\ \A j \in (k + 1)..Len(data.tables) : data.tables[j].name # n]]

schema_table_names(data) == [k \in 1..Len(data.tables) |-> data.tables[k].name]

has_table(data, table_name) == table_name \in DOMAIN table_name_to_table(data)

get_table(data, table_name) ==
    IF table_name \in DOMAIN table_name_to_table(data)
    THEN table_name_to_table(data)[table_name]
    ELSE None

column_names(data, table_name) ==
    LET columns == get_table(data, table_name).columns
    IN  [k \in 1..Len(columns) |-> columns[k].name]

\* The last column of the name wins, as in a dict comprehension.
has_column(data, table_name, column_name) ==
    /\ has_table(data, table_name)
    /\ column_name \in Range(column_names(data, table_name))

get_column(data, table_name, column_name) ==
    IF ~has_column(data, table_name, column_name) THEN None
    ELSE LET columns == get_table(data, table_name).columns
         IN  columns[CHOOSE k \in 1..Len(columns) :
                 /\ columns[k].name = column_name
                 /\ \A j \in (k + 1)..Len(columns) : columns[j].name # column_name]

----------------------------------------------------------------------------
(* Comparator: the regular expressions *)

\* type_and_size_re = ^(?P<type>\w+)\((?P<size>.+)\)$
type_and_size_re(s) ==
    IF /\ Len(s) >= 4
       /\ IsWord(s[1])
       /\ s[2] = "("
       /\ s[Len(s)] = ")"
    THEN [matched |-> TRUE, type |-> <<s[1]>>, size |-> SubSeq(s, 3, Len(s) - 1)]
    ELSE [matched |-> FALSE, type |-> None, size |-> None]

\* _normalize_index_definition that keeps the name of the index.
_normalize_index_definition_named(definition) ==
    LET d == definition
        u == IF Len(d) >= 3 /\ d[2] = " " /\ d[3] = "UNIQUE" THEN 2 ELSE 0
        ends == {n \in (10 + u)..Len(d) :
                    /\ d[n] = " "
                    /\ \A k \in (9 + u)..(n - 1) : IsNonSpace(d[k])}
        matches ==
            /\ Len(d) >= 16 + u
            /\ d[1] = "CREATE"
            /\ SubSeq(d, 2 + u, 4 + u) = <<" ", "INDEX", " ">>
            /\ IsWord(d[5 + u])
            /\ SubSeq(d, 6 + u, 8 + u) = <<" ", "ON", " ">>
            /\ ends # {}
            /\ LET n == CHOOSE n \in ends : TRUE
               IN  /\ Len(d) >= n + 6
                   /\ SubSeq(d, n, n + 2) = <<" ", "USING", " ">>
                   /\ d[n + 3] \in {"btree", "gin"}
                   /\ SubSeq(d, n + 4, n + 5) = <<" ", "(">>
                   /\ d[Len(d)] = ")"
    IN  IF matches THEN d ELSE NotImplementedError

\* ^CREATE(?P<unique> UNIQUE|) INDEX \w+ ON (?P<table>\S+) USING
\*  (?P<algorithm>btree|gin) \((?P<columns>.*)\)$
\* u is the number of lexemes of the unique group (0 or 2) and n the
\* position of the blank that ends the table group.
_normalize_index_definition(definition) ==
    LET d == definition
        u == IF Len(d) >= 3 /\ d[2] = " " /\ d[3] = "UNIQUE" THEN 2 ELSE 0
        ends == {n \in (10 + u)..Len(d) :
                    /\ d[n] = " "
                    /\ \A k \in (9 + u)..(n - 1) : IsNonSpace(d[k])}
        matches ==
            /\ Len(d) >= 16 + u
            /\ d[1] = "CREATE"
            /\ SubSeq(d, 2 + u, 4 + u) = <<" ", "INDEX", " ">>
            /\ IsWord(d[5 + u])
            /\ SubSeq(d, 6 + u, 8 + u) = <<" ", "ON", " ">>
            /\ ends # {}
            /\ LET n == CHOOSE n \in ends : TRUE
               IN  /\ Len(d) >= n + 6
                   /\ SubSeq(d, n, n + 2) = <<" ", "USING", " ">>
                   /\ d[n + 3] \in {"btree", "gin"}
                   /\ SubSeq(d, n + 4, n + 5) = <<" ", "(">>
                   /\ d[Len(d)] = ")"
    IN  IF matches
        THEN SubSeq(d, 1, 4 + u) \o <<"...">> \o SubSeq(d, 6 + u, Len(d))
        ELSE NotImplementedError

\* The last ")" of a definition: where the greedy .*\) of def1_re ends.
LastParen(d) ==
    CHOOSE r \in 1..Len(d) : d[r] = ")" /\ \A k \in (r + 1)..Len(d) : d[k] # ")"

\* def1_re = ^(?P<main>FOREIGN KEY \(.+\) REFERENCES [^(]+\(.*\))(?P<extra>.+)?$
\* p is the position of the ")" before REFERENCES and q that of the "("
\* after the referenced table.
MatchesForeignKey(d) ==
    /\ Len(d) >= 5
    /\ SubSeq(d, 1, 5) = <<"FOREIGN", " ", "KEY", " ", "(">>
    /\ \E p \in 7..Len(d) :
          /\ Len(d) >= p + 3
          /\ SubSeq(d, p, p + 3) = <<")", " ", "REFERENCES", " ">>
          /\ \E q \in (p + 5)..Len(d) :
                /\ d[q] = "("
                /\ \A k \in (p + 4)..(q - 1) : d[k] # "("
                /\ \E r \in (q + 1)..Len(d) : d[r] = ")"

\* def2_re = ^(?P<main>PRIMARY KEY \(.+\))$
MatchesPrimaryKey(d) ==
    /\ Len(d) >= 7
    /\ SubSeq(d, 1, 5) = <<"PRIMARY", " ", "KEY", " ", "(">>
    /\ d[Len(d)] = ")"

\* def3_re = ^(?P<main>UNIQUE \(.+\))$
MatchesUnique(d) ==
    /\ Len(d) >= 5
    /\ SubSeq(d, 1, 3) = <<"UNIQUE", " ", "(">>
    /\ d[Len(d)] = ")"

\* The pair (main, extra), or NotImplementedError.
_normalize_constraint_definition(definition) ==
    LET d == definition
    IN  IF MatchesForeignKey(d)
        THEN <<SubSeq(d, 1, LastParen(d)),
               IF LastParen(d) = Len(d) THEN None
               ELSE SubSeq(d, LastParen(d) + 1, Len(d))>>
        ELSE IF MatchesPrimaryKey(d) THEN <<d, None>>
        ELSE IF MatchesUnique(d) THEN <<d, None>>
        ELSE NotImplementedError

----------------------------------------------------------------------------
(* Comparator: the comparisons.  Each gives the lines it prints. *)

_compare_table_type(table_name) ==
    LET expected_table_type == get_table(expected, table_name).type
        actual_table_type == get_table(actual, table_name).type
    IN  IF expected_table_type # actual_table_type
        THEN <<Line(table_name, NoColumn, "type mismatch", NoValue,
                    expected_table_type, actual_table_type)>>
        ELSE <<>>

_compare_table_comment(table_name) ==
    LET e == get_table(expected, table_name).comment
        a == get_table(actual, table_name).comment
    IN  IF e # a
        THEN <<Line(table_name, NoColumn, "comment mismatch", NoValue, a, e)>>
        ELSE <<>>

\* InEquivalentTypes that takes a list of equivalent types as a pair in the
\* order (expected, actual).
InEquivalentTypesOrdered(expected_type, actual_type) ==
    \E k \in 1..Len(equivalent_types) :
        /\ Len(equivalent_types[k]) >= 2
        /\ expected_type = equivalent_types[k][1]
        /\ actual_type = equivalent_types[k][2]

\* expected_type in types and actual_type in types, for some types
InEquivalentTypes(expected_type, actual_type) ==
    \E k \in 1..Len(equivalent_types) :
        /\ expected_type \in Range(equivalent_types[k])
        /\ actual_type \in Range(equivalent_types[k])

\* _compare_column_type without the comparison of the sizes.
_compare_column_type_sizeless(table_name, column_name) ==
    LET e == get_column(expected, table_name, column_name).type
        a == get_column(actual, table_name, column_name).type
        m1 == type_and_size_re(e)
        expected_type == IF m1.matched THEN m1.type ELSE e
        m2 == type_and_size_re(a)
        actual_type == IF m2.matched THEN m2.type ELSE a
    IN  IF InEquivalentTypes(expected_type, actual_type) THEN <<>>
        ELSE IF expected_type # actual_type
        THEN <<Line(table_name, column_name, "type mismatch", NoValue, a, e)>>
        ELSE <<>>

_compare_column_type(table_name, column_name) ==
    LET e == get_column(expected, table_name, column_name).type
        a == get_column(actual, table_name, column_name).type
        m1 == type_and_size_re(e)
        expected_type == IF m1.matched THEN m1.type ELSE e
        expected_size == IF m1.matched THEN m1.size ELSE None
        m2 == type_and_size_re(a)
        actual_type == IF m2.matched THEN m2.type ELSE a
        actual_size == IF m2.matched THEN m2.size ELSE None
    IN  IF InEquivalentTypes(expected_type, actual_type) THEN <<>>
        ELSE IF expected_type # actual_type
        THEN <<Line(table_name, column_name, "type mismatch", NoValue, a, e)>>
        ELSE IF expected_size # actual_size
        THEN <<Line(table_name, column_name, "type size mismatch", NoValue, a, e)>>
        ELSE <<>>

_compare_column_comment(table_name, column_name) ==
    LET e == get_column(expected, table_name, column_name).comment
        a == get_column(actual, table_name, column_name).comment
    IN  IF e # a
        THEN <<Line(table_name, column_name, "comment mismatch", NoValue, a, e)>>
        ELSE <<>>

\* get_column gives None exactly where has_column is false.
_compare_column(table_name, column_name) ==
    IF ~has_column(expected, table_name, column_name)
    THEN <<Line(table_name, column_name, "column not expected", NoValue,
                NoValue, NoValue)>>
    ELSE IF ~has_column(actual, table_name, column_name)
    THEN <<Line(table_name, column_name, "column not found", NoValue,
                NoValue, NoValue)>>
    ELSE _compare_column_type(table_name, column_name)
            \o _compare_column_comment(table_name, column_name)

_compare_table_columns(table_name) ==
    LET expected_columns == column_names(expected, table_name)
        actual_columns == column_names(actual, table_name)
        names == sorted_names(Range(expected_columns \o actual_columns))
    IN  Concat([k \in 1..Len(names) |-> _compare_column(table_name, names[k])])

\* The normalised definitions of the indexes of one table of one schema.
NormalizedIndexes(data, table_name) ==
    LET indexes == get_table(data, table_name).indexes
    IN  [k \in 1..Len(indexes) |-> _normalize_index_definition(indexes[k].def)]

\* _compare_table_indexes with the definitions of the actual schema left
\* as they are, not normalised.
_compare_table_indexes_raw(table_name) ==
    LET e == NormalizedIndexes(expected, table_name)
        indexes == get_table(actual, table_name).indexes
        a == [k \in 1..Len(indexes) |-> indexes[k].def]
        all == sorted(Range(e \o a))
        line(index) ==
            IF index \notin Range(e)
            THEN <<Line(table_name, NoColumn, "index not expected", index,
                        NoValue, NoValue)>>
            ELSE IF index \notin Range(a)
            THEN <<Line(table_name, NoColumn, "index not found", index,
                        NoValue, NoValue)>>
            ELSE <<>>
    IN  IF NotImplementedError \in Range(e \o a)
        THEN [raised |-> TRUE, lines |-> <<>>]
        ELSE [raised |-> FALSE,
              lines |-> Concat([k \in 1..Len(all) |-> line(all[k])])]

\* _compare_table_indexes with a definition that cannot be normalised left
\* out of the comparison instead of raising.
_compare_table_indexes_skipping(table_name) ==
    LET e == SelectSeq(NormalizedIndexes(expected, table_name),
                       LAMBDA n : n # NotImplementedError)
        a == SelectSeq(NormalizedIndexes(actual, table_name),
                       LAMBDA n : n # NotImplementedError)
        all == sorted(Range(e \o a))
        line(index) ==
            IF index \notin Range(e)
            THEN <<Line(table_name, NoColumn, "index not expected", index,
                        NoValue, NoValue)>>
            ELSE IF index \notin Range(a)
            THEN <<Line(table_name, NoColumn, "index not found", index,
                        NoValue, NoValue)>>
            ELSE <<>>
    IN  [raised |-> FALSE,
         lines |-> Concat([k \in 1..Len(all) |-> line(all[k])])]

\* raised: a definition of either side could not be normalised, which
\* happens before the first line is printed.
_compare_table_indexes(table_name) ==
    LET e == NormalizedIndexes(expected, table_name)
        a == NormalizedIndexes(actual, table_name)
        all == sorted(Range(e \o a))
        line(index) ==
            IF index \notin Range(e)
            THEN <<Line(table_name, NoColumn, "index not expected", index,
                        NoValue, NoValue)>>
            ELSE IF index \notin Range(a)
            THEN <<Line(table_name, NoColumn, "index not found", index,
                        NoValue, NoValue)>>
            ELSE <<>>
    IN  IF NotImplementedError \in Range(e \o a)
        THEN [raised |-> TRUE, lines |-> <<>>]
        ELSE [raised |-> FALSE,
              lines |-> Concat([k \in 1..Len(all) |-> line(all[k])])]

\* The normalised definitions of the constraints of one table of one schema.
NormalizedConstraints(data, table_name) ==
    LET constraints == get_table(data, table_name).constraints
    IN  [k \in 1..Len(constraints) |->
            _normalize_constraint_definition(constraints[k].def)]

\* dict in which the first pair of a key wins.
dict_first(pairs) ==
    [key \in {pairs[k][1] : k \in 1..Len(pairs)} |->
        pairs[CHOOSE k \in 1..Len(pairs) :
            /\ pairs[k][1] = key
            /\ \A j \in 1..(k - 1) : pairs[j][1] # key][2]]

\* dict(pairs): the last pair of a key wins.
dict(pairs) ==
    [key \in {pairs[k][1] : k \in 1..Len(pairs)} |->
        pairs[CHOOSE k \in 1..Len(pairs) :
            /\ pairs[k][1] = key
            /\ \A j \in (k + 1)..Len(pairs) : pairs[j][1] # key][2]]

_compare_table_constraints(table_name) ==
    LET ne == NormalizedConstraints(expected, table_name)
        na == NormalizedConstraints(actual, table_name)
    IN  IF NotImplementedError \in Range(ne \o na)
        THEN [raised |-> TRUE, lines |-> <<>>]
        ELSE
          LET e == dict(ne)
              a == dict(na)
              keys == sorted(DOMAIN e \cup DOMAIN a)
              line(key) ==
                  IF key \notin DOMAIN e
                  THEN <<Line(table_name, NoColumn, "constraint not expected",
                              key, NoValue, NoValue)>>
                  ELSE IF key \notin DOMAIN a
                  THEN <<Line(table_name, NoColumn, "constraint not found",
                              key, NoValue, NoValue)>>
                  ELSE IF e[key] # a[key]
                  THEN <<Line(table_name, NoColumn, "constraint mismatch",
                              key, a[key], e[key])>>
                  ELSE <<>>
          IN  [raised |-> FALSE,
               lines |-> Concat([k \in 1..Len(keys) |-> line(keys[k])])]

----------------------------------------------------------------------------
(* Comparator.compare and Comparator.compare_table, statement by statement *)

\* The loop of compare() moves to the next table, or compare() returns.
NextTable ==
    /\ i' = i + 1
    /\ pc' = IF i + 1 > Len(table_names) THEN "done" ELSE "compare_table"

compare ==
    /\ pc = "compare"
    /\ table_names' =
          sorted_names(Range(schema_table_names(expected)
                                 \o schema_table_names(actual)))
    /\ i' = 1
    /\ pc' = IF table_names' = <<>> THEN "done" ELSE "compare_table"
    /\ UNCHANGED <<expected, actual, equivalent_types, stdout, exception>>

\* compare_table with the line of its second check forgotten.
compare_table_silent ==
    /\ pc = "compare_table"
    /\ IF ~has_table(expected, table_names[i])
       THEN /\ stdout' = Append(stdout, Line(table_names[i], NoColumn,
                             "table not expected", NoValue, NoValue, NoValue))
            /\ NextTable
       ELSE IF ~has_table(actual, table_names[i])
       THEN /\ stdout' = stdout
            /\ NextTable
       ELSE /\ stdout' = stdout
            /\ pc' = "_compare_table_type"
            /\ i' = i
    /\ UNCHANGED <<expected, actual, equivalent_types, table_names, exception>>

\* compare_table with the texts of its two lines exchanged.
compare_table_exchanged ==
    /\ pc = "compare_table"
    /\ IF ~has_table(expected, table_names[i])
       THEN /\ stdout' = Append(stdout, Line(table_names[i], NoColumn,
                             "table not found", NoValue, NoValue, NoValue))
            /\ NextTable
       ELSE IF ~has_table(actual, table_names[i])
       THEN /\ stdout' = Append(stdout, Line(table_names[i], NoColumn,
                             "table not expected", NoValue, NoValue, NoValue))
            /\ NextTable
       ELSE /\ stdout' = stdout
            /\ pc' = "_compare_table_type"
            /\ i' = i
    /\ UNCHANGED <<expected, actual, equivalent_types, table_names, exception>>

\* The two presence checks of compare_table.
compare_table ==
    /\ pc = "compare_table"
    /\ IF ~has_table(expected, table_names[i])
       THEN /\ stdout' = Append(stdout, Line(table_names[i], NoColumn,
                             "table not expected", NoValue, NoValue, NoValue))
            /\ NextTable
       ELSE IF ~has_table(actual, table_names[i])
       THEN /\ stdout' = Append(stdout, Line(table_names[i], NoColumn,
                             "table not found", NoValue, NoValue, NoValue))
            /\ NextTable
       ELSE /\ stdout' = stdout
            /\ pc' = "_compare_table_type"
            /\ i' = i
    /\ UNCHANGED <<expected, actual, equivalent_types, table_names, exception>>

compare_table_type ==
    /\ pc = "_compare_table_type"
    /\ stdout' = stdout \o _compare_table_type(table_names[i])
    /\ pc' = "_compare_table_comment"
    /\ UNCHANGED <<expected, actual, equivalent_types, table_names, i, exception>>

compare_table_comment ==
    /\ pc = "_compare_table_comment"
    /\ stdout' = stdout \o _compare_table_comment(table_names[i])
    /\ pc' = "_compare_table_columns"
    /\ UNCHANGED <<expected, actual, equivalent_types, table_names, i, exception>>

compare_table_columns ==
    /\ pc = "_compare_table_columns"
    /\ stdout' = stdout \o _compare_table_columns(table_names[i])
    /\ pc' = "_compare_table_indexes"
    /\ UNCHANGED <<expected, actual, equivalent_types, table_names, i, exception>>

\* A NotImplementedError propagates out of compare(): nothing catches it.
compare_table_indexes ==
    /\ pc = "_compare_table_indexes"
    /\ LET r == _compare_table_indexes(table_names[i])
       IN  /\ stdout' = stdout \o r.lines
           /\ exception' = IF r.raised THEN NotImplementedError ELSE exception
           /\ pc' = IF r.raised THEN "raised" ELSE "_compare_table_constraints"
    /\ UNCHANGED <<expected, actual, equivalent_types, table_names, i>>

compare_table_constraints ==
    /\ pc = "_compare_table_constraints"
    /\ LET r == _compare_table_constraints(table_names[i])
       IN  /\ stdout' = stdout \o r.lines
           /\ exception' = IF r.raised THEN NotImplementedError ELSE exception
           /\ IF r.raised
              THEN pc' = "raised" /\ i' = i
              ELSE NextTable
    /\ UNCHANGED <<expected, actual, equivalent_types, table_names>>

Next ==
    \/ compare
    \/ compare_table
    \/ compare_table_type
    \/ compare_table_comment
    \/ compare_table_columns
    \/ compare_table_indexes
    \/ compare_table_constraints

----------------------------------------------------------------------------
(* Inputs: the texts of the introspection documents *)

\* Bounds of the inputs.
MaxTables == 2        \* tables of one schema
MaxColumns == 1       \* columns of one table
MaxIndexes == 2       \* indexes of one table
MaxConstraints == 2   \* constraints of one table

BaseTable == <<"BASE", " ", "TABLE">>
View == <<"VIEW">>

\* CREATE [UNIQUE] INDEX <name> ON <table> USING <algorithm> (<columns>)
IndexDef(unique, name, table, algorithm, columns) ==
    <<"CREATE">> \o (IF unique THEN <<" ", "UNIQUE">> ELSE <<>>)
        \o <<" ", "INDEX", " ", name, " ", "ON", " ", table, " ", "USING", " ",
             algorithm, " ", "(">> \o columns \o <<")">>

Index(unique, name, table, algorithm, columns) ==
    [name |-> name, def |-> IndexDef(unique, name, table, algorithm, columns)]

\* FOREIGN KEY (<columns>) REFERENCES <table>(<key>)<extra>
ForeignKey(columns, table, key, extra) ==
    <<"FOREIGN", " ", "KEY", " ", "(">> \o columns
        \o <<")", " ", "REFERENCES", " ", table, "(">> \o key \o <<")">> \o extra

OnDeleteCascade == <<" ", "ON", " ", "DELETE", " ", "CASCADE">>
PrimaryKey(columns) == <<"PRIMARY", " ", "KEY", " ", "(">> \o columns \o <<")">>
Unique(columns) == <<"UNIQUE", " ", "(">> \o columns \o <<")">>
Check(columns) == <<"CHECK", " ", "(">> \o columns \o <<")">>

Constraint(name, def) == [name |-> name, def |-> def]

\* numeric(10,2) and the like
Sized(type, size) == <<type, "(">> \o size \o <<")">>

Column(name, type, comment) == [name |-> name, type |-> type, comment |-> comment]

Table(name, body) ==
    [name |-> name, type |-> body.type, comment |-> body.comment,
     columns |-> body.columns, indexes |-> body.indexes,
     constraints |-> body.constraints]

Body(type, comment, columns, indexes, constraints) ==
    [type |-> type, comment |-> comment, columns |-> columns,
     indexes |-> indexes, constraints |-> constraints]

SeqsUpTo(S, n) == UNION {[1..k -> S] : k \in 0..n}

\* The sequences of at most n elements of S with n distinct names.
Named(S, n) ==
    {s \in SeqsUpTo(S, n) :
        \A j, k \in 1..Len(s) : j # k => s[j].name # s[k].name}

\* The documents of at most n tables named in names with bodies in bodies.
Documents(names, bodies, n) ==
    {[tables |-> ts] : ts \in Named({Table(nm, b) : nm \in names, b \in bodies}, n)}

TableNameOrder == <<"a", "b", "c", "d">>
TableNames == {TableNameOrder[k] : k \in 1..MaxTables}

ColumnNameOrder == <<"x", "y", "z">>
ColumnNames == {ColumnNameOrder[k] : k \in 1..MaxColumns}

IndexDefs ==
    { Index(FALSE, "idx_1", "users", "btree", <<"id">>),
      Index(FALSE, "idx_42", "users", "btree", <<"id">>),
      Index(TRUE, "idx_1", "users", "btree", <<"id">>),
      Index(FALSE, "idx_42", "users", "gin", <<"id">>),
      Index(FALSE, "idx_1", "users", "hash", <<"id">>) }

ConstraintDefs ==
    { Constraint("c", ForeignKey(<<"user_id">>, "users", <<"id">>, <<>>)),
      Constraint("c", ForeignKey(<<"user_id">>, "users", <<"id">>, OnDeleteCascade)),
      Constraint("c", PrimaryKey(<<"id">>)),
      Constraint("c", Unique(<<"email">>)),
      Constraint("c", Check(<<"id">>)) }

Comments == {None, <<"c">>}

ColumnTypes ==
    { <<"numeric">>,
      Sized("numeric", <<"10", ",", "2">>),
      Sized("numeric", <<"10", ",", "4">>) }

EmptyBody == Body(BaseTable, None, <<>>, <<>>, <<>>)

\* Family 1: whole tables, present on one side or on both, some carrying a
\* definition no normaliser accepts.
TableBodies ==
    { EmptyBody,
      Body(View, <<"c">>,
           <<Column("x", <<"numeric">>, None)>>,
           <<Index(FALSE, "idx_1", "users", "hash", <<"id">>)>>,
           <<Constraint("c", PrimaryKey(<<"id">>))>>),
      Body(BaseTable, None, <<>>,
           <<Index(FALSE, "idx_1", "users", "btree", <<"id">>)>>,
           <<Constraint("c", Check(<<"id">>))>>) }

InputsTables ==
    /\ expected \in Documents(TableNames, TableBodies, MaxTables)
    /\ actual \in Documents(TableNames, TableBodies, MaxTables)
    /\ equivalent_types = <<>>

\* Family 2: the columns of one table.
ColumnBodies ==
    {Body(BaseTable, None, cs, <<>>, <<>>) :
        cs \in Named({Column(nm, t, c) : nm \in ColumnNames, t \in ColumnTypes,
                                          c \in Comments}, MaxColumns)}

InputsColumns ==
    /\ expected \in Documents({"a"}, ColumnBodies, 1)
    /\ actual \in Documents({"a"}, ColumnBodies, 1)
    /\ equivalent_types = <<>>

\* Family 3: the type of one column, under lists of equivalent types.
TypeBodies ==
    {Body(BaseTable, None, <<Column("x", t, None)>>, <<>>, <<>>) :
        t \in ColumnTypes \cup
              { <<"decimal">>,
                Sized("decimal", <<"10", ",", "2">>),
                Sized("varchar", <<"255">>),
                <<"text">>,
                <<"character", " ", "varying", "(", "255", ")">> }}

EquivalentTypes ==
    { <<>>,
      << <<(<<"text">>), (<<"varchar">>)>> >>,
      << <<(<<"numeric">>), (<<"decimal">>)>> >>,
      << <<(<<"text">>), (<<"varchar">>)>>, <<(<<"decimal">>), (<<"numeric">>)>> >>,
      << <<(<<"numeric">>)>>, <<(<<"decimal">>)>> >> }

InputsColumnType ==
    /\ expected \in {[tables |-> <<Table("a", b)>>] : b \in TypeBodies}
    /\ actual \in {[tables |-> <<Table("a", b)>>] : b \in TypeBodies}
    /\ equivalent_types \in EquivalentTypes

\* Family 4: the indexes of one table.
IndexBodies ==
    {Body(BaseTable, None, <<>>, is, <<>>) : is \in SeqsUpTo(IndexDefs, MaxIndexes)}

InputsIndexes ==
    /\ expected \in {[tables |-> <<Table("a", b)>>] : b \in IndexBodies}
    /\ actual \in {[tables |-> <<Table("a", b)>>] : b \in IndexBodies}
    /\ equivalent_types = <<>>

\* Family 5: the constraints of one table.
ConstraintBodies ==
    {Body(BaseTable, None, <<>>, <<>>, cs) :
        cs \in SeqsUpTo(ConstraintDefs, MaxConstraints)}

InputsConstraints ==
    /\ expected \in {[tables |-> <<Table("a", b)>>] : b \in ConstraintBodies}
    /\ actual \in {[tables |-> <<Table("a", b)>>] : b \in ConstraintBodies}
    /\ equivalent_types = <<>>

Start ==
    /\ table_names = <<>>
    /\ i = 0
    /\ pc = "compare"
    /\ stdout = <<>>
    /\ exception = None

\* Family 6: a table whose parts all differ at once.
MixedBodies ==
    {Body(t, c, cs, is, ks) :
        t \in {BaseTable, View},
        c \in Comments,
        cs \in { <<Column("x", Sized("numeric", <<"10", ",", "2">>), None)>>,
                 <<Column("y", <<"numeric">>, <<"c">>),
                   Column("x", Sized("numeric", <<"10", ",", "4">>), <<"c">>)>> },
        is \in { <<Index(FALSE, "idx_1", "users", "btree", <<"id">>)>>,
                 <<Index(FALSE, "idx_42", "users", "gin", <<"id">>),
                   Index(TRUE, "idx_1", "users", "btree", <<"id">>)>> },
        ks \in { <<Constraint("c", PrimaryKey(<<"id">>))>>,
                 <<Constraint("c", Unique(<<"email">>)),
                   Constraint("c", ForeignKey(<<"user_id">>, "users", <<"id">>,
                                              OnDeleteCascade))>> }}

\* The documents hold that table alone, or after a second table.
MixedDocuments ==
    {[tables |-> <<Table("a", b)>>] : b \in MixedBodies}
        \cup {[tables |-> <<Table("b", EmptyBody), Table("a", b)>>] : b \in MixedBodies}

InputsMixed ==
    /\ expected \in MixedDocuments
    /\ actual \in MixedDocuments
    /\ equivalent_types = <<>>

Init ==
    /\ \/ InputsTables
       \/ InputsColumns
       \/ InputsColumnType
       \/ InputsIndexes
       \/ InputsConstraints
       \/ InputsMixed
    /\ Start

InitTables == InputsTables /\ Start
InitColumnType == InputsColumnType /\ Start
InitIndexes == InputsIndexes /\ Start
InitConstraints == InputsConstraints /\ Start

\* Spec runs compare() on the inputs of all families, the others on those of
\* one family.
Spec == Init /\ [][Next]_vars
SpecTables == InitTables /\ [][Next]_vars
SpecColumnType == InitColumnType /\ [][Next]_vars
SpecIndexes == InitIndexes /\ [][Next]_vars
SpecConstraints == InitConstraints /\ [][Next]_vars

----------------------------------------------------------------------------
(* Notions the properties are stated in *)

\* The names of the tables of either schema.
AllTableNames ==
    Range(schema_table_names(expected)) \cup Range(schema_table_names(actual))

OnBothSides(t) == has_table(expected, t) /\ has_table(actual, t)
OnlyExpected(t) == has_table(expected, t) /\ ~has_table(actual, t)
OnlyActual(t) == ~has_table(expected, t) /\ has_table(actual, t)

\* The number of printed lines that satisfy P.
Count(P(_)) == Cardinality({k \in 1..Len(stdout) : P(stdout[k])})

PresenceKinds == {"table not expected", "table not found"}
IndexKinds == {"index not expected", "index not found"}
ConstraintKinds ==
    {"constraint not expected", "constraint not found", "constraint mismatch"}

\* The loop of compare() is past table t: compare_table(t) has returned.
Handled(t) == \E k \in 1..Len(table_names) : table_names[k] = t /\ k < i

\* C1: whenever expected and actual are the same schema, nothing is ever
\* printed, whatever the schema holds and whatever the equivalence list is.
C1_IdenticalSchemasNoFindings == expected = actual => stdout = <<>>

\* compare() has returned on one schema given twice, which holds a table with
\* columns, indexes and constraints.
C1_Witness ==
    /\ pc = "done"
    /\ expected = actual
    /\ \E k \in 1..Len(expected.tables) :
          /\ expected.tables[k].columns # <<>>
          /\ expected.tables[k].indexes # <<>>
          /\ expected.tables[k].constraints # <<>>

\* C3: a table that is in exactly one of the two schemas never has a line
\* other than its presence line, never has two lines, and has exactly one
\* line once compare_table has handled it; so it has exactly one line when
\* compare() returns.
C3_OneSidedTableOneFinding ==
    \A t \in AllTableNames :
        (OnlyExpected(t) \/ OnlyActual(t)) =>
            /\ \A k \in 1..Len(stdout) :
                  stdout[k].table = t => stdout[k].kind \in PresenceKinds
            /\ Count(LAMBDA l : l.table = t) <= 1
            /\ (Handled(t) \/ pc = "done") => Count(LAMBDA l : l.table = t) = 1

\* compare() has returned, and a table with a column, an index and a
\* constraint, which is in one schema only, has its one line.
C3_Witness ==
    /\ pc = "done"
    /\ \E t \in AllTableNames :
          /\ OnlyExpected(t)
          /\ get_table(expected, t).columns # <<>>
          /\ get_table(expected, t).indexes # <<>>
          /\ get_table(expected, t).constraints # <<>>
          /\ Count(LAMBDA l : l.table = t) = 1

\* C4 as stated: a handled table that is only in the expected schema has
\* the line "table not expected", and one that is only in the actual schema
\* has the line "table not found".
C4_AsStated ==
    \A t \in AllTableNames :
        Handled(t) =>
            /\ OnlyExpected(t) =>
                  Count(LAMBDA l : l.table = t /\ l.kind = "table not expected") = 1
            /\ OnlyActual(t) =>
                  Count(LAMBDA l : l.table = t /\ l.kind = "table not found") = 1

\* C4 amended: a handled table that is only in the expected schema has the
\* line "table not found" (the actual schema lacks it), and one that is only
\* in the actual schema has the line "table not expected".
C4_PresenceSides ==
    \A t \in AllTableNames :
        Handled(t) =>
            /\ OnlyExpected(t) =>
                  Count(LAMBDA l : l.table = t /\ l.kind = "table not found") = 1
            /\ OnlyActual(t) =>
                  Count(LAMBDA l : l.table = t /\ l.kind = "table not expected") = 1

\* compare() has returned with a table of each kind reported.
C4_Witness ==
    /\ pc = "done"
    /\ \E t, u \in AllTableNames :
          /\ OnlyExpected(t)
          /\ OnlyActual(u)
          /\ Count(LAMBDA l : l.table = t /\ l.kind = "table not found") = 1
          /\ Count(LAMBDA l : l.table = u /\ l.kind = "table not expected") = 1

\* A definition of table t, in either schema, that no normaliser accepts.
UnparseableIndex(t) ==
    \E data \in {expected, actual} :
        NotImplementedError \in Range(NormalizedIndexes(data, t))

UnparseableConstraint(t) ==
    \E data \in {expected, actual} :
        NotImplementedError \in Range(NormalizedConstraints(data, t))

\* A table of one schema that holds a definition no normaliser accepts.
HoldsUnparseable(data, t) ==
    /\ has_table(data, t)
    /\ \/ NotImplementedError \in Range(NormalizedIndexes(data, t))
       \/ NotImplementedError \in Range(NormalizedConstraints(data, t))

\* C2 as stated: an unparseable definition anywhere in either schema aborts
\* the run, so a run that returns has met none, in any table of either schema.
C2_AsStated ==
    pc = "done" =>
        \A t \in AllTableNames :
            ~HoldsUnparseable(expected, t) /\ ~HoldsUnparseable(actual, t)

\* C2 amended: the run aborts with NotImplementedError exactly at the first
\* table, in sorted order, that is in both schemas and holds an unparseable
\* index or constraint definition on either side; a run that returns has met
\* no such table.  The aborted run has ended: it prints no line for a later
\* table, no constraint line for the aborting table, and no index line for
\* it either when it is an index definition that is unparseable.  An
\* unparseable definition of a table that is in one schema only is never read.
C2_AbortsAtFirstUnparseable ==
    LET Bad(t) == OnBothSides(t) /\ (UnparseableIndex(t) \/ UnparseableConstraint(t))
    IN  /\ pc = "done" => \A t \in AllTableNames : ~Bad(t)
        /\ exception # None <=> pc = "raised"
        /\ pc = "raised" =>
              LET t == table_names[i]
              IN  /\ exception = NotImplementedError
                  /\ ~ENABLED Next
                  /\ Bad(t)
                  /\ \A k \in 1..(i - 1) : ~Bad(table_names[k])
                  /\ \A k \in 1..Len(stdout) :
                        /\ ~LessName(t, stdout[k].table)
                        /\ stdout[k].table = t =>
                              /\ stdout[k].kind \notin ConstraintKinds
                              /\ UnparseableIndex(t) =>
                                    stdout[k].kind \notin IndexKinds

\* The run has aborted on an unparseable constraint definition after the
\* index line of the same table was printed, and an earlier table, which is
\* in one schema only, holds an unparseable definition that was passed over.
C2_Witness ==
    /\ pc = "raised"
    /\ \E k \in 1..Len(stdout) :
          stdout[k].table = table_names[i] /\ stdout[k].kind \in IndexKinds
    /\ \E k \in 1..(i - 1) :
          \/ HoldsUnparseable(expected, table_names[k])
          \/ HoldsUnparseable(actual, table_names[k])

\* The base type and the size of a raw column type, as the pattern splits it.
BaseType(raw) == IF type_and_size_re(raw).matched THEN type_and_size_re(raw).type ELSE raw
Size(raw) == type_and_size_re(raw).size

\* Both base types are members of one configured equivalence list.
Equivalent(s, t) ==
    \E k \in 1..Len(equivalent_types) : {s, t} \subseteq Range(equivalent_types[k])

\* _compare_table_columns(t) has run.
ColumnsCompared(t) ==
    \/ Handled(t)
    \/ /\ pc \in {"_compare_table_indexes", "_compare_table_constraints", "raised"}
       /\ table_names[i] = t

\* The columns that table t has in both schemas.
CommonColumns(t) ==
    Range(column_names(expected, t)) \cap Range(column_names(actual, t))

TypeLines(t, c, kind) ==
    Count(LAMBDA l : l.table = t /\ l.column = c /\ l.kind = kind)

\* C5 as stated: for a compared column of both sides, whenever the base
\* types are identical or both in one equivalence list and the sizes differ,
\* there is exactly one "type size mismatch" line.
C5_AsStated ==
    \A t \in AllTableNames :
        (OnBothSides(t) /\ ColumnsCompared(t)) =>
            \A c \in CommonColumns(t) :
                LET e == get_column(expected, t, c).type
                    a == get_column(actual, t, c).type
                IN  ( /\ BaseType(e) = BaseType(a) \/ Equivalent(BaseType(e), BaseType(a))
                      /\ Size(e) # Size(a) )
                    => TypeLines(t, c, "type size mismatch") = 1

\* C5 amended: for a compared column of both sides there is at most one type
\* line.  If both base types are in one configured equivalence list (in
\* either order) there is none, whatever the sizes are.  Otherwise, if the
\* base types differ there is exactly one "type mismatch" line and no size
\* line; if they are identical and the sizes differ there is exactly one
\* "type size mismatch" line; if they are identical and the sizes are too,
\* there is none.
C5_TypeFindings ==
    \A t \in AllTableNames :
        (OnBothSides(t) /\ ColumnsCompared(t)) =>
            \A c \in CommonColumns(t) :
                LET e == get_column(expected, t, c).type
                    a == get_column(actual, t, c).type
                    types == TypeLines(t, c, "type mismatch")
                    sizes == TypeLines(t, c, "type size mismatch")
                IN  IF Equivalent(BaseType(e), BaseType(a))
                    THEN types = 0 /\ sizes = 0
                    ELSE IF BaseType(e) # BaseType(a)
                    THEN types = 1 /\ sizes = 0
                    ELSE IF Size(e) # Size(a)
                    THEN types = 0 /\ sizes = 1
                    ELSE types = 0 /\ sizes = 0

\* compare() has returned with the one line "type size mismatch:
\* numeric(10,4) != numeric(10,2)" for a column, under a list that makes
\* other types equivalent.
C5_Witness ==
    /\ pc = "done"
    /\ equivalent_types # <<>>
    /\ \E k \in 1..Len(stdout) :
          /\ stdout[k].kind = "type size mismatch"
          /\ stdout[k].left = Sized("numeric", <<"10", ",", "4">>)
          /\ stdout[k].right = Sized("numeric", <<"10", ",", "2">>)
    /\ Len(stdout) = 1

\* Two index definitions that are the same text but for the index name.
SameButName(d1, d2) ==
    /\ Len(d1) = Len(d2)
    /\ Len(d1) >= 5
    /\ LET n == IF d1[3] = "UNIQUE" THEN 7 ELSE 5
       IN  /\ n <= Len(d1)
           /\ d1[n - 2] = "INDEX"
           /\ IsWord(d1[n]) /\ IsWord(d2[n])
           /\ \A k \in 1..Len(d1) : k # n => d1[k] = d2[k]

\* The two schemas are the same but for the names of their indexes.
DifferOnlyInIndexNames ==
    /\ Len(expected.tables) = Len(actual.tables)
    /\ \A k \in 1..Len(expected.tables) :
          LET e == expected.tables[k]
              a == actual.tables[k]
          IN  /\ e.name = a.name /\ e.type = a.type /\ e.comment = a.comment
              /\ e.columns = a.columns /\ e.constraints = a.constraints
              /\ Len(e.indexes) = Len(a.indexes)
              /\ \A j \in 1..Len(e.indexes) :
                    \/ e.indexes[j].def = a.indexes[j].def
                    \/ SameButName(e.indexes[j].def, a.indexes[j].def)

\* The index definitions of both schemas.
AllIndexDefs ==
    UNION {{t.indexes[j].def : j \in 1..Len(t.indexes)} :
              t \in Range(expected.tables) \cup Range(actual.tables)}

\* C6: two index definitions that are the same text but for the index name
\* have the same normalised form, and when the two schemas are the same but
\* for the names in their index definitions no index line is ever printed.
C6_IndexNameInvariance ==
    /\ \A d1, d2 \in AllIndexDefs :
          SameButName(d1, d2) =>
              _normalize_index_definition(d1) = _normalize_index_definition(d2)
    /\ DifferOnlyInIndexNames =>
          \A k \in 1..Len(stdout) : stdout[k].kind \notin IndexKinds

\* compare() has returned without a line on two schemas whose indexes are
\* named differently and otherwise the same.
C6_Witness ==
    /\ pc = "done"
    /\ DifferOnlyInIndexNames
    /\ expected # actual
    /\ stdout = <<>>

\* The keys of the constraints of table t of one schema, and the extra part
\* of the last definition with a key.
ConstraintKeys(data, t) ==
    {NormalizedConstraints(data, t)[k][1] :
        k \in 1..Len(NormalizedConstraints(data, t))}

LastExtra(data, t, key) ==
    LET n == NormalizedConstraints(data, t)
        at == {k \in 1..Len(n) : n[k][1] = key}
    IN  n[CHOOSE k \in at : \A j \in at : j <= k][2]

\* C8: for a table of both sides whose constraints have been compared, and
\* every key of either side, taking for a key the extra part of the last
\* definition with that key: a key that only the actual schema has gets the
\* one line "constraint not expected", a key that only the expected schema
\* has gets the one line "constraint not found", a key of both with
\* different extra parts gets the one mismatch line, which shows the two
\* extra parts, and a key of both with equal extra parts gets no line.
C8_ConstraintFindings ==
    \A t \in AllTableNames :
        (OnBothSides(t) /\ Handled(t)) =>
            \A key \in ConstraintKeys(expected, t) \cup ConstraintKeys(actual, t) :
                LET lines(kind) ==
                        Count(LAMBDA l : l.table = t /\ l.name = key /\ l.kind = kind)
                    all == Count(LAMBDA l : /\ l.table = t
                                            /\ l.name = key
                                            /\ l.kind \in ConstraintKinds)
                IN  IF key \notin ConstraintKeys(expected, t)
                    THEN all = 1 /\ lines("constraint not expected") = 1
                    ELSE IF key \notin ConstraintKeys(actual, t)
                    THEN all = 1 /\ lines("constraint not found") = 1
                    ELSE IF LastExtra(expected, t, key) # LastExtra(actual, t, key)
                    THEN /\ all = 1
                         /\ Count(LAMBDA l :
                                /\ l.table = t
                                /\ l.name = key
                                /\ l.kind = "constraint mismatch"
                                /\ l.left = LastExtra(actual, t, key)
                                /\ l.right = LastExtra(expected, t, key)) = 1
                    ELSE all = 0

\* compare() has returned; the expected schema gives one key twice with
\* different extra parts, the actual schema once, and the key has its
\* mismatch line.
C8_Witness ==
    /\ pc = "done"
    /\ \E t \in AllTableNames :
          /\ OnBothSides(t)
          /\ LET n == NormalizedConstraints(expected, t)
             IN  /\ Len(n) = 2
                 /\ n[1][1] = n[2][1]
                 /\ n[1][2] # n[2][2]
                 /\ ConstraintKeys(actual, t) = {n[1][1]}
                 /\ LastExtra(actual, t, n[1][1]) = n[1][2]
          /\ \E k \in 1..Len(stdout) : stdout[k].kind = "constraint mismatch"

\* The place of a line in the order of compare_table: 1 presence, 2 table
\* type, 3 table comment, 4 columns, 5 indexes, 6 constraints.
Phase(l) ==
    IF l.kind \in PresenceKinds THEN 1
    ELSE IF l.kind = "type mismatch" /\ l.column = NoColumn THEN 2
    ELSE IF l.kind = "comment mismatch" /\ l.column = NoColumn THEN 3
    ELSE IF l.kind \in IndexKinds THEN 5
    ELSE IF l.kind \in ConstraintKinds THEN 6
    ELSE 4

\* Within one column: the presence line or the type line, then the comment.
ColumnPhase(l) == IF l.kind = "comment mismatch" THEN 2 ELSE 1

\* Line l has its place before line m.
Precedes(l, m) ==
    \/ LessName(l.table, m.table)
    \/ /\ l.table = m.table
       /\ \/ Phase(l) < Phase(m)
          \/ /\ Phase(l) = Phase(m)
             /\ \/ /\ Phase(l) = 4
                   /\ \/ LessName(l.column, m.column)
                      \/ l.column = m.column /\ ColumnPhase(l) < ColumnPhase(m)
                \/ /\ Phase(l) \in {5, 6}
                   /\ LessString(l.name, m.name)

\* C7: at every point of a run the printed lines are in order: by ascending
\* table name, within a table presence, table type, table comment, columns,
\* indexes, constraints, the column lines by ascending column name with the
\* type line before the comment line, the index lines by ascending
\* normalised form and the constraint lines by ascending key.
C7_FindingsOrdered ==
    \A p, q \in 1..Len(stdout) : p < q => Precedes(stdout[p], stdout[q])

\* compare() has returned with lines of two tables, and for the first of
\* them a table type line, a table comment line, lines of two columns, the
\* type and the comment line of one column, two index lines and two
\* constraint lines.
C7_Witness ==
    /\ pc = "done"
    /\ \E t \in AllTableNames :
          /\ \E k \in 1..Len(stdout) : LessName(t, stdout[k].table)
          /\ Count(LAMBDA l : l.table = t /\ Phase(l) = 2) = 1
          /\ Count(LAMBDA l : l.table = t /\ Phase(l) = 3) = 1
          /\ \E c, d \in Range(column_names(actual, t)) :
                /\ c # d
                /\ Count(LAMBDA l : l.table = t /\ l.column = c) = 2
                /\ Count(LAMBDA l : l.table = t /\ l.column = d) = 1
          /\ Count(LAMBDA l : l.table = t /\ Phase(l) = 5) >= 2
          /\ Count(LAMBDA l : l.table = t /\ Phase(l) = 6) >= 2

\* C9 as stated: every mismatch line shows the value of the actual schema on
\* the left of "!=" and the value of the expected schema on the right.
C9_AsStated ==
    \A k \in 1..Len(stdout) :
        LET l == stdout[k]
            Shows(a, e) == l.left = a /\ l.right = e
        IN  /\ (l.kind = "type mismatch" /\ l.column = NoColumn) =>
                  Shows(get_table(actual, l.table).type,
                        get_table(expected, l.table).type)
            /\ (l.kind = "comment mismatch" /\ l.column = NoColumn) =>
                  Shows(get_table(actual, l.table).comment,
                        get_table(expected, l.table).comment)
            /\ (l.kind \in {"type mismatch", "type size mismatch"}
                    /\ l.column # NoColumn) =>
                  Shows(get_column(actual, l.table, l.column).type,
                        get_column(expected, l.table, l.column).type)
            /\ (l.kind = "comment mismatch" /\ l.column # NoColumn) =>
                  Shows(get_column(actual, l.table, l.column).comment,
                        get_column(expected, l.table, l.column).comment)
            /\ l.kind = "constraint mismatch" =>
                  Shows(LastExtra(actual, l.table, l.name),
                        LastExtra(expected, l.table, l.name))

\* C10: when compare() returns under an empty equivalence list without a
\* printed line, the two schemas have the same table names and, table by
\* table, the same type, comment and column names, column by column the
\* same raw type and comment, the same set of normalised index forms and
\* the same constraint keys with the same extra part each.
C10_EmptyReportSound ==
    (pc = "done" /\ stdout = <<>> /\ equivalent_types = <<>>) =>
        /\ Range(schema_table_names(expected)) = Range(schema_table_names(actual))
        /\ \A t \in AllTableNames :
              /\ get_table(expected, t).type = get_table(actual, t).type
              /\ get_table(expected, t).comment = get_table(actual, t).comment
              /\ Range(column_names(expected, t)) = Range(column_names(actual, t))
              /\ \A c \in Range(column_names(expected, t)) :
                    /\ get_column(expected, t, c).type = get_column(actual, t, c).type
                    /\ get_column(expected, t, c).comment
                           = get_column(actual, t, c).comment
              /\ Range(NormalizedIndexes(expected, t))
                     = Range(NormalizedIndexes(actual, t))
              /\ ConstraintKeys(expected, t) = ConstraintKeys(actual, t)
              /\ \A key \in ConstraintKeys(expected, t) :
                    LastExtra(expected, t, key) = LastExtra(actual, t, key)

\* compare() has returned without a line on two different documents whose
\* tables hold columns, indexes or constraints.
C10_Witness ==
    /\ pc = "done"
    /\ stdout = <<>>
    /\ equivalent_types = <<>>
    /\ expected # actual
    /\ \E t \in AllTableNames :
          \/ get_table(expected, t).indexes # <<>>
          \/ get_table(expected, t).constraints # <<>>

====
